---------------------------- MODULE Spec2Model ----------------------------
(***************************************************************************)
(* Model of the microfacet BSDF routines of Framework/Source/ShadingUtils/ *)
(* BSDFs.h: Fresnel terms, Smith shadowing/masking and importance sampling *)
(* of the Beckmann and GGX lobes.                                          *)
(*                                                                         *)
(* The routines are pure functions over `float`.  A float is modelled as a *)
(* binary floating-point number with a PrecBits-bit significand, round to  *)
(* nearest even, the float32 exponent range, flush-to-zero underflow, and  *)
(* the special values Inf and NaN.  Every arithmetic operation of the code *)
(* is one rounded operation of the model, in the order the code writes it. *)
(***************************************************************************)
EXTENDS Integers, Sequences, FiniteSets, TLC

(***************************************************************************)
(* Bounds of the model.                                                    *)
(***************************************************************************)
\* Width of the significand of a modelled float, in bits.
PrecBits == 11
\* Resolution of the grid the random samples are drawn from.
GridN == 4

(***************************************************************************)
(* Floating point.  A finite non-zero value is m * 2^e with                *)
(* 2^(PrecBits-1) <= |m| < 2^PrecBits.                                     *)
(***************************************************************************)
FZero == [k |-> "num", m |-> 0, e |-> 0]
FNaN == [k |-> "nan", m |-> 0, e |-> 0]
FInf(s) == [k |-> "inf", m |-> s, e |-> 0]
\* The content of a local that no statement has assigned yet.
Undef == [k |-> "undef", m |-> 0, e |-> 0]

IAbs(n) == IF n < 0 THEN -n ELSE n
ISign(n) == IF n < 0 THEN -1 ELSE 1

IsNum(a) == a.k = "num"
IsNaN(a) == a.k = "nan"
IsInf(a) == a.k = "inf"
IsZero(a) == a.k = "num" /\ a.m = 0
\* A finite value: neither Inf nor NaN (nor an unassigned local).
IsFinite(a) == a.k = "num"

\* n / 2^k rounded to the nearest integer, ties to even (n >= 0, k >= 0).
RoundShift(n, k) ==
  IF k = 0 THEN n
  ELSE LET d == 2^k
           q == n \div d
           r == n % d
           h == d \div 2
       IN IF r > h \/ (r = h /\ q % 2 = 1) THEN q + 1 ELSE q

\* Number of bits of n > 0.
RECURSIVE BitLen(_)
BitLen(n) == IF n = 0 THEN 0 ELSE 1 + BitLen(n \div 2)

\* The float of sign s and magnitude n * 2^e (n >= 0 any integer): rounds
\* to PrecBits bits, overflows to Inf and underflows to zero.
Pack(s, n, e) ==
  IF n = 0 THEN FZero
  ELSE LET b == BitLen(n)
           sh == b - PrecBits
           n1 == IF sh > 0 THEN RoundShift(n, sh) ELSE n * 2^(-sh)
           \* rounding may carry into one more bit
           n2 == IF n1 = 2^PrecBits THEN n1 \div 2 ELSE n1
           e2 == IF n1 = 2^PrecBits THEN e + sh + 1 ELSE e + sh
       IN IF e2 + PrecBits > 128 THEN FInf(s)
          ELSE IF e2 + PrecBits < -125 THEN FZero
          ELSE [k |-> "num", m |-> s * n2, e |-> e2]

FInt(n) == Pack(ISign(n), IAbs(n), 0)

FNeg(a) ==
  IF IsNum(a) THEN [a EXCEPT !.m = -a.m]
  ELSE IF IsInf(a) THEN FInf(-a.m)
  ELSE a

FAbs(a) ==
  IF IsNum(a) THEN [a EXCEPT !.m = IAbs(a.m)]
  ELSE IF IsInf(a) THEN FInf(1)
  ELSE a

FSgn(a) == IF a.m < 0 THEN -1 ELSE IF a.m > 0 THEN 1 ELSE 0

FMul(a, b) ==
  IF IsNaN(a) \/ IsNaN(b) THEN FNaN
  ELSE IF IsInf(a) \/ IsInf(b)
       THEN IF IsZero(a) \/ IsZero(b) THEN FNaN ELSE FInf(FSgn(a) * FSgn(b))
  ELSE IF a.m = 0 \/ b.m = 0 THEN FZero
  ELSE Pack(FSgn(a) * FSgn(b), IAbs(a.m) * IAbs(b.m), a.e + b.e)

FDiv(a, b) ==
  IF IsNaN(a) \/ IsNaN(b) THEN FNaN
  ELSE IF IsInf(a) THEN (IF IsInf(b) THEN FNaN
                         ELSE FInf(a.m * (IF b.m < 0 THEN -1 ELSE 1)))
  ELSE IF IsInf(b) THEN FZero
  ELSE IF b.m = 0 THEN (IF a.m = 0 THEN FNaN ELSE FInf(FSgn(a)))
  ELSE IF a.m = 0 THEN FZero
  ELSE LET sft == PrecBits + 3
           n == IAbs(a.m) * 2^sft
           q == n \div IAbs(b.m)
           \* a sticky bit keeps the rounding of an inexact quotient right
           qs == IF n % IAbs(b.m) = 0 THEN 2 * q ELSE 2 * q + 1
       IN Pack(FSgn(a) * FSgn(b), qs, a.e - b.e - sft - 1)

\* Sum of two finite non-zero values; the smaller is aligned to the larger
\* with three guard bits below the larger one's last place.
AddNum(a, b) ==
  LET hi == IF a.e >= b.e THEN a ELSE b
      lo == IF a.e >= b.e THEN b ELSE a
      d == hi.e - lo.e
  IN IF d > PrecBits + 2 THEN hi
     ELSE LET sum == hi.m * 2^d + lo.m
          IN Pack(ISign(sum), IAbs(sum), lo.e)

FAdd(a, b) ==
  IF IsNaN(a) \/ IsNaN(b) THEN FNaN
  ELSE IF IsInf(a) THEN (IF IsInf(b) /\ a.m # b.m THEN FNaN ELSE a)
  ELSE IF IsInf(b) THEN b
  ELSE IF a.m = 0 THEN b
  ELSE IF b.m = 0 THEN a
  ELSE AddNum(a, b)

FSub(a, b) == FAdd(a, FNeg(b))

\* Comparisons; every comparison with a NaN is false.
NumLt(a, b) ==
  IF FSgn(a) # FSgn(b) THEN FSgn(a) < FSgn(b)
  ELSE IF FSgn(a) = 0 THEN FALSE
  ELSE IF a.e = b.e THEN a.m < b.m
  ELSE IF FSgn(a) > 0 THEN a.e < b.e
  ELSE a.e > b.e

FLt(a, b) ==
  IF IsNaN(a) \/ IsNaN(b) THEN FALSE
  ELSE IF IsInf(a) THEN a.m < 0 /\ ~(IsInf(b) /\ b.m < 0)
  ELSE IF IsInf(b) THEN b.m > 0
  ELSE NumLt(a, b)

FEq(a, b) == ~IsNaN(a) /\ ~IsNaN(b) /\ a = b
FLe(a, b) == FLt(a, b) \/ FEq(a, b)
FGt(a, b) == FLt(b, a)
FGe(a, b) == FLe(b, a)

\* max and min as the shading languages define them: a < b ? b : a.
FMax(a, b) == IF FLt(a, b) THEN b ELSE a
FMin(a, b) == IF FLt(b, a) THEN b ELSE a

FOne == FInt(1)
FTwo == FInt(2)
FHalf == FDiv(FOne, FTwo)
\* The float nearest to the literal n / d (d > 0), rounded once.
FRat(n, d) ==
  LET up == BitLen(d) - BitLen(IAbs(n))
      sh == PrecBits + 3 + (IF up > 0 THEN up ELSE 0)
      sc == IAbs(n) * 2^sh
      q == sc \div d
      qs == IF sc % d = 0 THEN 2 * q ELSE 2 * q + 1
  IN Pack(ISign(n), qs, -(sh + 1))

(***************************************************************************)
(* The math library: sqrt, sin, cos, log, exp.  Each is computed to the    *)
(* precision of the modelled float by argument reduction and a series,     *)
(* and keeps the special cases of the C library (sqrt of a negative is     *)
(* NaN, log 0 is -Inf, exp(-Inf) is 0, ...).                               *)
(***************************************************************************)
\* Largest r with r * r <= n, searched between lo and hi.
RECURSIVE ISqrtIn(_, _, _)
ISqrtIn(n, lo, hi) ==
  IF lo >= hi THEN lo
  ELSE LET mid == (lo + hi + 1) \div 2
       IN IF mid * mid <= n THEN ISqrtIn(n, mid, hi) ELSE ISqrtIn(n, lo, mid - 1)

ISqrt(n) == ISqrtIn(n, 0, 2^(PrecBits + 3))

FSqrt(a) ==
  IF IsNaN(a) THEN FNaN
  ELSE IF IsInf(a) THEN (IF a.m > 0 THEN a ELSE FNaN)
  ELSE IF a.m = 0 THEN FZero
  ELSE IF a.m < 0 THEN FNaN
  ELSE LET odd == a.e % 2 # 0
           n == IF odd THEN 2 * a.m ELSE a.m
           ev == IF odd THEN a.e - 1 ELSE a.e
           \* scale by 2^(2j) so that the integer root keeps guard bits
           j == (PrecBits + 5) \div 2
           sc == n * 2^(2 * j)
           r == ISqrt(sc)
           rs == IF r * r = sc THEN 2 * r ELSE 2 * r + 1
       IN Pack(1, rs, (ev \div 2) - j - 1)

\* The integer nearest to a finite value of small magnitude.
FRoundInt(a) ==
  IF a.m = 0 THEN 0
  ELSE IF a.e >= 0 THEN a.m * 2^a.e
  ELSE IF -a.e > PrecBits + 1 THEN 0
  ELSE FSgn(a) * RoundShift(IAbs(a.m), -a.e)

M_PIf == FRat(355, 113)
M_1_PIf == FRat(113, 355)
HalfPi == FRat(355, 226)
Ln2 == FRat(1143, 1649)

\* sin and cos of a reduced argument |r| <= pi/4, by their Taylor series.
SinSeries(r) ==
  LET r2 == FMul(r, r)
      t3 == FDiv(FMul(r, r2), FInt(6))
      t5 == FDiv(FMul(t3, r2), FInt(20))
      t7 == FDiv(FMul(t5, r2), FInt(42))
  IN FSub(FAdd(FSub(r, t3), t5), t7)

CosSeries(r) ==
  LET r2 == FMul(r, r)
      t2 == FDiv(r2, FInt(2))
      t4 == FDiv(FMul(t2, r2), FInt(12))
      t6 == FDiv(FMul(t4, r2), FInt(30))
      t8 == FDiv(FMul(t6, r2), FInt(56))
  IN FAdd(FSub(FAdd(FSub(FOne, t2), t4), t6), t8)

\* The quadrant of x and the reduced argument x - quadrant * pi/2.
Quadrant(x) == FRoundInt(FDiv(x, HalfPi))
Reduced(x) == FSub(x, FMul(FInt(Quadrant(x)), HalfPi))

FSin(x) ==
  IF ~IsNum(x) THEN FNaN
  ELSE IF FGt(FAbs(x), FInt(1000)) THEN FNaN
  ELSE LET q == Quadrant(x) % 4
           r == Reduced(x)
       IN CASE q = 0 -> SinSeries(r)
            [] q = 1 -> CosSeries(r)
            [] q = 2 -> FNeg(SinSeries(r))
            [] OTHER -> FNeg(CosSeries(r))

FCos(x) ==
  IF ~IsNum(x) THEN FNaN
  ELSE IF FGt(FAbs(x), FInt(1000)) THEN FNaN
  ELSE LET q == Quadrant(x) % 4
           r == Reduced(x)
       IN CASE q = 0 -> CosSeries(r)
            [] q = 1 -> FNeg(SinSeries(r))
            [] q = 2 -> FNeg(CosSeries(r))
            [] OTHER -> SinSeries(r)

\* log of a significand f in [0.70, 1.42): 2 * atanh((f - 1) / (f + 1)).
LogSeries(f) ==
  LET z == FDiv(FSub(f, FOne), FAdd(f, FOne))
      z2 == FMul(z, z)
      z3 == FMul(z, z2)
      z5 == FMul(z3, z2)
      z7 == FMul(z5, z2)
      z9 == FMul(z7, z2)
      s == FAdd(FAdd(FAdd(FAdd(z, FDiv(z3, FInt(3))), FDiv(z5, FInt(5))),
                     FDiv(z7, FInt(7))), FDiv(z9, FInt(9)))
  IN FMul(FTwo, s)

FLog(x) ==
  IF IsNaN(x) THEN FNaN
  ELSE IF IsInf(x) THEN (IF x.m > 0 THEN x ELSE FNaN)
  ELSE IF x.m = 0 THEN FInf(-1)
  ELSE IF x.m < 0 THEN FNaN
  ELSE LET \* x = f * 2^p with f in [1, 2)
           f1 == [k |-> "num", m |-> x.m, e |-> 1 - PrecBits]
           p1 == x.e + PrecBits - 1
           big == FGt(FMul(f1, f1), FTwo)
           f == IF big THEN [f1 EXCEPT !.e = -PrecBits] ELSE f1
           p == IF big THEN p1 + 1 ELSE p1
       IN FAdd(FMul(FInt(p), Ln2), LogSeries(f))

\* exp of a reduced argument |r| <= ln(2)/2, by its Taylor series.
ExpSeries(r) ==
  LET t2 == FDiv(FMul(r, r), FInt(2))
      t3 == FDiv(FMul(t2, r), FInt(3))
      t4 == FDiv(FMul(t3, r), FInt(4))
      t5 == FDiv(FMul(t4, r), FInt(5))
      t6 == FDiv(FMul(t5, r), FInt(6))
  IN FAdd(FAdd(FAdd(FAdd(FAdd(FAdd(FOne, r), t2), t3), t4), t5), t6)

FExp(x) ==
  IF IsNaN(x) THEN FNaN
  ELSE IF IsInf(x) THEN (IF x.m > 0 THEN x ELSE FZero)
  ELSE IF FGt(x, FInt(90)) THEN FInf(1)
  ELSE IF FLt(x, FInt(-90)) THEN FZero
  ELSE LET n == FRoundInt(FDiv(x, Ln2))
           r == FSub(x, FMul(FInt(n), Ln2))
           s == ExpSeries(r)
       IN Pack(1, s.m, s.e + n)

(***************************************************************************)
(* Vectors (vec2, vec3) and the operations the code uses on them.          *)
(***************************************************************************)
v2(x, y) == [x |-> x, y |-> y]
v3(x, y, z) == [x |-> x, y |-> y, z |-> z]
UndefVec == v3(Undef, Undef, Undef)

dot2(a, b) == FAdd(FMul(a.x, b.x), FMul(a.y, b.y))
dot(a, b) == FAdd(FAdd(FMul(a.x, b.x), FMul(a.y, b.y)), FMul(a.z, b.z))
VNeg(a) == v3(FNeg(a.x), FNeg(a.y), FNeg(a.z))
VScale(s, a) == v3(FMul(s, a.x), FMul(s, a.y), FMul(s, a.z))
VSub(a, b) == v3(FSub(a.x, b.x), FSub(a.y, b.y), FSub(a.z, b.z))
\* length of a vec2
length2(a) == FSqrt(dot2(a, a))

(***************************************************************************)
(* Fresnel terms (BSDFs.h, lines 43-78).                                   *)
(***************************************************************************)
dielectricFresnelSchlick(VdH, IoR) ==
  LET q == FDiv(FSub(FOne, IoR), FAdd(FOne, IoR))
      R0 == FMul(q, q)
      OneMinusCos == FSub(FOne, VdH)
      OneMinusCos2 == FMul(OneMinusCos, OneMinusCos)
  IN FAdd(R0, FMul(FMul(FMul(FSub(FOne, R0), OneMinusCos), OneMinusCos2),
                   OneMinusCos2))

dielectricFresnelFast(NdE, NdL, IoR) ==
  LET Rs == FDiv(FSub(NdE, FMul(IoR, NdL)), FAdd(NdE, FMul(IoR, NdL)))
      Rp == FDiv(FSub(FMul(IoR, NdE), NdL), FAdd(FMul(IoR, NdE), NdL))
  IN FMul(FAdd(FMul(Rs, Rs), FMul(Rp, Rp)), FHalf)

\* A slip in the test of line 71: `<` for `<=`.
TotalInternalReflectionStrict(NdL2) == FLt(NdL2, FZero)

\* The test of line 71.
TotalInternalReflection(NdL2) == FLe(NdL2, FZero)

\* Line 77: the mean of the squared wave ratios.
Unpolarized(Rp, Rs) == FMul(FAdd(FMul(Rp, Rp), FMul(Rs, Rs)), FHalf)

\* The locals of dielectricFresnel at its return, and the value returned.
\* NdL, Rp and Rs stay unassigned on the total internal reflection path.
dielectricFresnelLocals(NdE, IoR) ==
  LET realIoR == IF FGe(NdE, FZero) THEN FDiv(FOne, IoR) ELSE IoR
      NdL2 == FSub(FOne, FMul(FMul(realIoR, realIoR),
                              FSub(FOne, FMul(NdE, NdE))))
  IN IF TotalInternalReflection(NdL2)
     THEN [realIoR |-> realIoR, NdL2 |-> NdL2, NdL |-> Undef, Rp |-> Undef,
           Rs |-> Undef, ret |-> FOne]
     ELSE LET NdL == FSqrt(NdL2)
              aNdE == FAbs(NdE)
              Rp == FDiv(FSub(FMul(IoR, NdL), aNdE), FAdd(FMul(IoR, NdL), aNdE))
              Rs == FDiv(FSub(aNdE, FMul(IoR, NdL)), FAdd(aNdE, FMul(IoR, NdL)))
          IN [realIoR |-> realIoR, NdL2 |-> NdL2, NdL |-> NdL, Rp |-> Rp,
              Rs |-> Rs, ret |-> Unpolarized(Rp, Rs)]

dielectricFresnel(NdE, IoR) == dielectricFresnelLocals(NdE, IoR).ret

(***************************************************************************)
(* Normal distribution functions (lines 123-141 and 184-195).  The source  *)
(* overloads evalBeckmannDistribution; the isotropic form (N, H,           *)
(* roughness) is named evalBeckmannDistributionIso here.                   *)
(***************************************************************************)
\* The locals of the isotropic form at its return (lines 123-132): expArg
\* is the argument exp is called with.
evalBeckmannDistributionIsoLocals(N, H, roughness) ==
  LET a2 == FMul(roughness, roughness)
      NoH == dot(N, H)
      NoH2 == FMul(NoH, NoH)
      exponent == FMax(FZero, FDiv(FSub(FOne, NoH2), FMul(a2, NoH2)))
  IN [exponent |-> exponent, expArg |-> FNeg(exponent),
      ret |-> FDiv(FExp(FNeg(exponent)),
                   FMul(FMul(FMul(M_PIf, a2), NoH2), NoH2))]

evalBeckmannDistributionIso(N, H, roughness) ==
  evalBeckmannDistributionIsoLocals(N, H, roughness).ret

\* The exponent of the anisotropic form (lines 136-139): the division of
\* Hproj by rgns * rgns is component-wise.
BeckmannExponent(H, rgns) ==
  FDiv(dot2(v2(FDiv(H.x, FMul(rgns.x, rgns.x)), FDiv(H.y, FMul(rgns.y, rgns.y))),
            v2(H.x, H.y)),
       FMul(H.z, H.z))

\* The value returned at line 140, given the exponent.
BeckmannValue(H, rgns, exponent) ==
  FDiv(FExp(FNeg(exponent)),
       FMul(FMul(FMul(FMul(M_PIf, rgns.x), rgns.y), FMul(H.z, H.z)),
            FMul(H.z, H.z)))

\* The locals of the anisotropic form, given the exponent.
BeckmannLocals(H, rgns, exponent) ==
  [exponent |-> exponent, expArg |-> FNeg(exponent),
   ret |-> BeckmannValue(H, rgns, exponent)]

\* The locals of the anisotropic form at its return (lines 134-141).
evalBeckmannDistributionLocals(H, rgns) ==
  BeckmannLocals(H, rgns, BeckmannExponent(H, rgns))

evalBeckmannDistribution(H, rgns) ==
  BeckmannValue(H, rgns, BeckmannExponent(H, rgns))

\* The roughness ratios of lines 187-188.
GGXAnisoU(rgns) == IF FLt(rgns.y, rgns.x) THEN FDiv(rgns.y, rgns.x) ELSE FOne
GGXAnisoV(rgns) == IF FLt(rgns.x, rgns.y) THEN FDiv(rgns.x, rgns.y) ELSE FOne

\* The exponent of line 192, given the squared ratios.
GGXExponent(H, scale) ==
  dot2(v2(FDiv(H.x, scale.x), FDiv(H.y, scale.y)), v2(H.x, H.y))

\* The root of line 193.
GGXRoot(H, r, exponent) == FAdd(FMul(FMul(FMul(H.z, H.z), r), r), exponent)

\* The denominator of line 194.
GGXDenom(anisoU, anisoV, root) ==
  FMul(FMul(FMul(FMul(M_PIf, anisoU), anisoV), root), root)

\* The divisors of lines 187, 188, 192 and 194.
GGXDivisors(rgns, scale, denom) ==
  (IF FLt(rgns.y, rgns.x) THEN {rgns.x} ELSE {})
    \cup (IF FLt(rgns.x, rgns.y) THEN {rgns.y} ELSE {})
    \cup {scale.x, scale.y, denom}

\* The locals at the return of line 194, built from the values of lines
\* 187-194 in the order the code computes them.
GGXLocals(H, rgns, r, anisoU, anisoV, exponent, denom) ==
  [anisoU |-> anisoU, anisoV |-> anisoV, exponent |-> exponent,
   divisors |-> GGXDivisors(rgns, v2(FMul(anisoU, anisoU), FMul(anisoV, anisoV)),
                            denom),
   ret |-> FDiv(FMul(r, r), denom)]

GGXWithExponent(H, rgns, r, anisoU, anisoV, exponent) ==
  GGXLocals(H, rgns, r, anisoU, anisoV, exponent,
            GGXDenom(anisoU, anisoV, GGXRoot(H, r, exponent)))

GGXWithRatios(H, rgns, anisoU, anisoV) ==
  GGXWithExponent(H, rgns, FMin(rgns.x, rgns.y), anisoU, anisoV,
                  GGXExponent(H, v2(FMul(anisoU, anisoU), FMul(anisoV, anisoV))))

\* The locals of the anisotropic GGX form at its return (lines 184-195):
\* divisors holds the divisor of every division the call evaluated.
evalGGXDistributionLocals(H, rgns) ==
  GGXWithRatios(H, rgns, GGXAnisoU(rgns), GGXAnisoV(rgns))

evalGGXDistribution(H, rgns) == evalGGXDistributionLocals(H, rgns).ret

(***************************************************************************)
(* Shadowing and masking (lines 207-264).                                  *)
(***************************************************************************)
\* A slip in line 209: the divisor taken to be cos^2, not sin^2.
RecipDivisorCosine(dir) == FMul(dir.z, dir.z)

\* The divisor of line 209, 1 - dir.z^2.
RecipDivisor(dir) == FSub(FOne, FMul(dir.z, dir.z))

\* The locals of effectiveVisibleRoughness at its return (lines 207-214).
effectiveVisibleRoughnessLocals(dir, rghns) ==
  LET divisor == RecipDivisor(dir)
      recipSinThSq == FDiv(FOne, divisor)
      cosSinPhiSq == v2(FMul(FMul(dir.x, dir.x), recipSinThSq),
                        FMul(FMul(dir.y, dir.y), recipSinThSq))
      res == v2(FMul(FMul(rghns.x, rghns.x), cosSinPhiSq.x),
                FMul(FMul(rghns.y, rghns.y), cosSinPhiSq.y))
  IN [divisor |-> divisor, recipSinThSq |-> recipSinThSq,
      ret |-> FSqrt(FAdd(res.x, res.y))]

effectiveVisibleRoughness(dir, rghns) ==
  effectiveVisibleRoughnessLocals(dir, rghns).ret

\* The first test of GSmith (line 226): the microfacet is back-facing.
BackFacing(dir, h) == FLe(FMul(dot(dir, h), dir.z), FZero)
\* A slip in the test of line 229: `<` for `<=`.
NoMaskingStrict(dir) == FLt(FSub(FOne, FMul(dir.z, dir.z)), FZero)

\* The second test of GSmith (line 229): sin^2(theta) <= 0.
NoMasking(dir) == FLe(FSub(FOne, FMul(dir.z, dir.z)), FZero)

\* The quotient a of line 236.  Zeros carry no sign in this model, while
\* the sign of a zero divisor decides the sign of the infinity: alpha is a
\* square root, hence never -0, so a zero product alpha * recipSlope has
\* the sign of recipSlope.
BeckmannA(alpha, recipSlope) ==
  IF IsZero(alpha) /\ IsNum(recipSlope) /\ recipSlope.m < 0
  THEN FInf(-1)
  ELSE FDiv(FOne, FMul(alpha, recipSlope))

\* The Beckmann fit of [Walter07] (lines 236-240).
BeckmannG(alpha, recipSlope) ==
  LET a == BeckmannA(alpha, recipSlope)
      aSq == FMul(a, a)
  IN IF FGt(a, FRat(16, 10)) THEN FOne
     ELSE FDiv(FAdd(FMul(FRat(3535, 1000), a), FMul(FRat(2181, 1000), aSq)),
               FAdd(FAdd(FOne, FMul(FRat(2276, 1000), a)),
                    FMul(FRat(2577, 1000), aSq)))

\* The GGX shadowing/masking term (lines 244-245).
GGXG(alpha, recipSlope) ==
  LET isectRoot == FMul(alpha, recipSlope)
  IN FDiv(FTwo, FAdd(FOne, length2(v2(FOne, isectRoot))))

\* The remainder of GSmith (lines 231-245).
SmithTerm(dir, rghns, ndfType) ==
  LET sinThSq == FSub(FOne, FMul(dir.z, dir.z))
      recipSlope == FDiv(FSqrt(sinThSq), dir.z)
      alpha == effectiveVisibleRoughness(dir, rghns)
  IN IF ndfType = "NDFBeckmann" THEN BeckmannG(alpha, recipSlope)
     ELSE GGXG(alpha, recipSlope)

\* A slip in the order of the early returns: the test of line 229 first.
GSmithNoMaskingFirst(dir, h, rghns, ndfType) ==
  IF NoMasking(dir) THEN FOne
  ELSE IF BackFacing(dir, h) THEN FZero
  ELSE SmithTerm(dir, rghns, ndfType)

GSmith(dir, h, rghns, ndfType) ==
  IF BackFacing(dir, h) THEN FZero
  ELSE IF NoMasking(dir) THEN FOne
  ELSE SmithTerm(dir, rghns, ndfType)

\* The divisors GSmith evaluates (lines 231-245): dir.z of the slope, the
\* divisor inside effectiveVisibleRoughness, alpha * recipSlope and the
\* denominator of the fit in the Beckmann branch, 1 + length in the GGX
\* branch.  None is evaluated when an early return is taken.
\* The divisors of the Beckmann branch (lines 236-240): alpha * recipSlope
\* and, when a <= 1.6, the denominator of the fit.
BeckmannDivisors(aDivisor, a) ==
  IF FGt(a, FRat(16, 10)) THEN {aDivisor}
  ELSE {aDivisor, FAdd(FAdd(FOne, FMul(FRat(2276, 1000), a)),
                       FMul(FRat(2577, 1000), FMul(a, a)))}

\* The divisors of lines 231-245, given the locals evr of the call of
\* effectiveVisibleRoughness.
SmithDivisors(slopeDivisor, evr, recipSlope, ndfType) ==
  [slopeDivisor |-> slopeDivisor,
   alphaDivisor |-> evr.divisor,
   aDivisor |-> IF ndfType = "NDFBeckmann"
                THEN FMul(evr.ret, recipSlope) ELSE Undef,
   divisors |-> {slopeDivisor, evr.divisor} \cup
                (IF ndfType = "NDFBeckmann"
                 THEN BeckmannDivisors(FMul(evr.ret, recipSlope),
                                       BeckmannA(evr.ret, recipSlope))
                 ELSE {FAdd(FOne, length2(v2(FOne, FMul(evr.ret, recipSlope))))})]

GSmithLocals(dir, h, rghns, ndfType) ==
  IF BackFacing(dir, h) \/ NoMasking(dir)
  THEN [slopeDivisor |-> Undef, alphaDivisor |-> Undef, aDivisor |-> Undef,
        divisors |-> {}]
  ELSE SmithDivisors(dir.z, effectiveVisibleRoughnessLocals(dir, rghns),
                     FDiv(FSqrt(FSub(FOne, FMul(dir.z, dir.z))), dir.z),
                     ndfType)

\* The tangent-frame projection of lines 255-256.
ToTangent(T, B, N, w) == v3(dot(T, w), dot(B, w), dot(N, w))

\* A slip in the test of line 259: the transmissive flag ignored.
OppositeHemispheresAlways(lTg, vTg, transmissive) ==
  FLe(FMul(lTg.z, vTg.z), FZero)

\* The test of line 259: a reflection with V and L in opposite hemispheres.
OppositeHemispheres(lTg, vTg, transmissive) ==
  ~transmissive /\ FLe(FMul(lTg.z, vTg.z), FZero)

evalMicrofacetTerms(T, B, N, h, V, L, roughness, ndfType, transmissive) ==
  LET lTg == ToTangent(T, B, N, L)
      vTg == ToTangent(T, B, N, V)
  IN IF OppositeHemispheres(lTg, vTg, transmissive) THEN FZero
     ELSE FMul(GSmith(vTg, h, roughness, ndfType),
               GSmith(lTg, h, roughness, ndfType))

(***************************************************************************)
(* Importance sampling (lines 280-383).  sampleBeckmannDistribution and    *)
(* sampleGGXDistribution share their structure; the operators below are    *)
(* the statements of the two functions, in the order of the source.        *)
(***************************************************************************)
Beckmann == "sampleBeckmannDistribution"
GGX == "sampleGGXDistribution"

\* The literal 1e-20f of lines 303 and 360.
PdfThreshold ==
  LET t == FRat(1, 10000)
  IN FMul(FMul(FMul(FMul(t, t), t), t), t)

\* Lines 291 and 347: the azimuth of the microfacet normal.
SamplePhi(rSample) == FMul(FMul(FTwo, M_PIf), rSample.y)

\* Lines 296 and 352: tan^2 of the polar angle, by the inverse CDF.
TanThetaMSqr(f, alphaSqr, rSample) ==
  IF f = Beckmann
  THEN FMul(alphaSqr, FNeg(FLog(FSub(FOne, rSample.x))))
  ELSE FDiv(FMul(alphaSqr, rSample.x), FSub(FOne, rSample.x))

\* Lines 297 and 353.
CosThetaM(tanThetaMSqr) == FDiv(FOne, FSqrt(FAdd(FOne, tanThetaMSqr)))

\* Lines 300 and 356-357: the density of the sampled half vector.
HalfVectorPdf(f, roughness, rSample, alphaSqr, tanThetaMSqr, cosThetaM) ==
  IF f = Beckmann
  THEN FDiv(FSub(FOne, rSample.x),
            FMul(FMul(FMul(FMul(FMul(M_PIf, roughness.x), roughness.y),
                           cosThetaM), cosThetaM), cosThetaM))
  ELSE LET temp == FAdd(FOne, FDiv(tanThetaMSqr, alphaSqr))
       IN FDiv(M_1_PIf,
               FMul(FMul(FMul(FMul(FMul(FMul(roughness.x, roughness.y),
                                        cosThetaM), cosThetaM), cosThetaM),
                         temp), temp))

\* A slip in lines 303-304: the sanity check left out.
SanityCheckNone(pdf) == pdf

\* Lines 303-304 and 360-361: the sanity check on the density.
SanityCheck(pdf) == IF FLt(pdf, PdfThreshold) THEN FZero ELSE pdf

\* Lines 307-311 and 364-368: the microfacet normal.
MicrofacetNormal(cosThetaM, sinPhiM, cosPhiM) ==
  LET sinThetaM == FSqrt(FMax(FZero, FSub(FOne, FMul(cosThetaM, cosThetaM))))
  IN v3(FMul(sinThetaM, cosPhiM), FMul(sinThetaM, sinPhiM), cosThetaM)

\* Lines 314 and 371: wo mirrored about m.
Reflect(wo, m) ==
  VSub(VNeg(wo), VScale(FMul(FTwo, dot(VNeg(wo), m)), m))

\* Lines 315 and 374: the sample is rejected.
Rejected(wi, pdf) == FLe(wi.z, FZero) \/ FLe(pdf, FZero)

\* The distribution each sampler evaluates (lines 318 and 377).
Distribution(f, m, roughness) ==
  IF f = Beckmann THEN evalBeckmannDistribution(m, roughness)
  ELSE evalGGXDistribution(m, roughness)

\* Lines 318 and 377.
Weight(f, wo, roughness, m, pdf) ==
  FDiv(FMul(Distribution(f, m, roughness), dot(wo, m)), FMul(pdf, wo.z))

\* Lines 321 and 380: the Cook-Torrance Jacobian.
Jacobian(pdf, wi, m) == FDiv(pdf, FMul(FInt(4), dot(wi, m)))

(***************************************************************************)
(* The inputs the functions are called with.                               *)
(***************************************************************************)
\* Cosines in [0, 1], and the same with either sign.
CosSet == {FRat(k, 4 * GridN) : k \in 0..(4 * GridN)}
NdESet == CosSet \cup {FNeg(c) : c \in CosSet}
\* Indices of refraction, below and above 1, and one so small that the
\* square of its reciprocal overflows.
IoRSet == {FRat(1, 4), FRat(1, 2), FRat(2, 3), FOne, FRat(4, 3), FRat(3, 2),
           FTwo, FInt(3), Pack(1, 1, -70)}

Vec(x, y, z, d) == v3(FRat(x, d), FRat(y, d), FRat(z, d))
\* Directions: at the pole on either side, above and below the surface, at
\* the horizon, and one that is not normalized (|dir.z| > 1).
DirSet == {Vec(0, 0, 1, 1), Vec(0, 0, -1, 1), Vec(3, 0, 4, 5), Vec(0, 4, 3, 5),
           Vec(-3, 0, -4, 5), Vec(0, -4, -3, 5), Vec(1, 0, 0, 1),
           Vec(0, 0, 3, 2)}
HSet == {Vec(0, 0, 1, 1), Vec(0, 0, -1, 1), Vec(3, 0, 4, 5), Vec(1, 0, 0, 1)}
RoughSet == {v2(FHalf, FHalf), v2(FRat(1, 4), FOne)}
\* Roughness vectors of GSmith: those of RoughSet and a positive one whose
\* square is below the smallest float.
SmithRoughSet == RoughSet \cup {v2(Pack(1, 1, -80), Pack(1, 1, -80))}
\* The float next below 1.
BelowOne == Pack(1, 2^PrecBits - 1, -PrecBits)
\* Directions effectiveVisibleRoughness is called with on its own: at the
\* poles, next to them, at the horizon and in between.
PoleDirSet == {Vec(0, 0, 1, 1), Vec(0, 0, -1, 1), v3(FZero, FZero, BelowOne),
               v3(FZero, FZero, FNeg(BelowOne)), Vec(1, 0, 0, 1),
               Vec(0, 1, 0, 1), Vec(3, 4, 0, 5), Vec(3, 0, 4, 5),
               Vec(0, 4, 3, 5), Vec(0, -4, -3, 5)}
NdfSet == {"NDFBeckmann", "NDFGGX"}
\* Shading frames (T, B, N): the identity and a permutation of the axes.
FrameSet == {[T |-> Vec(1, 0, 0, 1), B |-> Vec(0, 1, 0, 1), N |-> Vec(0, 0, 1, 1)],
             [T |-> Vec(0, 1, 0, 1), B |-> Vec(0, 0, 1, 1), N |-> Vec(1, 0, 0, 1)]}

\* Half vectors of the distribution functions: unit ones, one at the horizon
\* (NoH = 0), the zero vector and one that is not normalized.
NdfHSet == {Vec(0, 0, 1, 1), Vec(3, 0, 4, 5), Vec(0, 4, 3, 5), Vec(0, 3, -4, 5),
            Vec(1, 0, 0, 1), Vec(3, 4, 0, 5), Vec(0, 0, 0, 1), Vec(0, 0, 3, 2)}
\* Roughness of the isotropic and of the anisotropic Beckmann form; the last
\* is so small that its square underflows.
IsoRoughSet == {FRat(1, 4), FHalf, FOne}
BeckmannRoughSet == {v2(FHalf, FHalf), v2(FRat(1, 4), FOne), v2(FOne, FRat(1, 4)),
                     v2(Pack(1, 1, -80), Pack(1, 1, -80))}
\* Roughness of the anisotropic GGX form: also with components equal to 0.
GGXRoughSet == BeckmannRoughSet \cup {v2(FZero, FHalf), v2(FHalf, FZero),
                                     v2(FZero, FZero)}

\* Outgoing directions of the samplers; the last is below the surface.
WoSet == {Vec(0, 0, 1, 1), Vec(3, 0, 4, 5), Vec(4, 0, 3, 5), Vec(3, 0, -4, 5)}
\* Roughness of the samplers: isotropic, anisotropic, one so large along y
\* that the density of the half vector falls below 1e-20, and one so small
\* that its square underflows.
SampleRoughSet == {v2(FHalf, FHalf), v2(FOne, FOne), v2(FHalf, FOne),
                   v2(FOne, Pack(1, 1, 70)),
                   v2(Pack(1, 1, -80), Pack(1, 1, -80))}
\* Random samples in [0, 1)^2.
RSampleX == {FRat(k, GridN) : k \in 0..(GridN - 1)} \cup {FHalf, FRat(15, 16)}
RSampleY == {FRat(k, GridN) : k \in 0..(GridN - 1)}

(***************************************************************************)
(* The state: the function that ran or is running, its position, its       *)
(* arguments, its locals and out parameters, and the value it returned.    *)
(***************************************************************************)
VARIABLES fn, pc, arg, loc, ret

vars == <<fn, pc, arg, loc, ret>>

Samplers == {Beckmann, GGX}
\* No call has been made yet: a behaviour is one call, from its entry to its
\* return.
Ready == pc = "idle"

Init ==
  /\ fn = "none"
  /\ pc = "idle"
  /\ arg = <<>>
  /\ loc = <<>>
  /\ ret = Undef

\* The functions without out parameters run to their return in one step.
CallDielectricFresnelSchlick ==
  /\ Ready
  /\ \E VdH \in CosSet, IoR \in IoRSet :
       /\ arg' = [VdH |-> VdH, IoR |-> IoR]
       /\ ret' = dielectricFresnelSchlick(VdH, IoR)
  /\ fn' = "dielectricFresnelSchlick"
  /\ loc' = <<>>
  /\ pc' = "done"

CallDielectricFresnelFast ==
  /\ Ready
  /\ \E NdE \in {FRat(k, GridN) : k \in 1..GridN},
        NdL \in {FRat(k, GridN) : k \in 1..GridN},
        IoR \in {FRat(2, 3), FOne, FRat(3, 2)} :
       /\ arg' = [NdE |-> NdE, NdL |-> NdL, IoR |-> IoR]
       /\ ret' = dielectricFresnelFast(NdE, NdL, IoR)
  /\ fn' = "dielectricFresnelFast"
  /\ loc' = <<>>
  /\ pc' = "done"

CallDielectricFresnel ==
  /\ Ready
  /\ \E NdE \in NdESet, IoR \in IoRSet :
       /\ arg' = [NdE |-> NdE, IoR |-> IoR]
       /\ loc' = dielectricFresnelLocals(NdE, IoR)
       /\ ret' = dielectricFresnel(NdE, IoR)
  /\ fn' = "dielectricFresnel"
  /\ pc' = "done"

CallEffectiveVisibleRoughness ==
  /\ Ready
  /\ \E dir \in PoleDirSet, rghns \in RoughSet :
       /\ arg' = [dir |-> dir, rghns |-> rghns]
       /\ loc' = effectiveVisibleRoughnessLocals(dir, rghns)
       /\ ret' = effectiveVisibleRoughness(dir, rghns)
  /\ fn' = "effectiveVisibleRoughness"
  /\ pc' = "done"

CallGSmith ==
  /\ Ready
  /\ \E dir \in DirSet, h \in HSet, rghns \in SmithRoughSet, ndfType \in NdfSet :
       /\ arg' = [dir |-> dir, h |-> h, rghns |-> rghns, ndfType |-> ndfType]
       /\ loc' = GSmithLocals(dir, h, rghns, ndfType)
       /\ ret' = GSmith(dir, h, rghns, ndfType)
  /\ fn' = "GSmith"
  /\ pc' = "done"

CallEvalMicrofacetTerms ==
  /\ Ready
  /\ \E fr \in FrameSet, h \in HSet, V \in DirSet, L \in DirSet,
        roughness \in RoughSet, ndfType \in NdfSet, transmissive \in BOOLEAN :
       /\ arg' = [T |-> fr.T, B |-> fr.B, N |-> fr.N, h |-> h, V |-> V,
                  L |-> L, roughness |-> roughness, ndfType |-> ndfType,
                  transmissive |-> transmissive]
       /\ ret' = evalMicrofacetTerms(fr.T, fr.B, fr.N, h, V, L, roughness,
                                     ndfType, transmissive)
  /\ fn' = "evalMicrofacetTerms"
  /\ loc' = <<>>
  /\ pc' = "done"

CallEvalBeckmannDistributionIso ==
  /\ Ready
  /\ \E H \in NdfHSet, roughness \in IsoRoughSet :
       LET N == Vec(0, 0, 1, 1)
       IN /\ arg' = [N |-> N, H |-> H, roughness |-> roughness]
          /\ loc' = evalBeckmannDistributionIsoLocals(N, H, roughness)
          /\ ret' = evalBeckmannDistributionIso(N, H, roughness)
  /\ fn' = "evalBeckmannDistributionIso"
  /\ pc' = "done"

CallEvalBeckmannDistribution ==
  /\ Ready
  /\ \E H \in NdfHSet, rgns \in BeckmannRoughSet :
       /\ arg' = [H |-> H, rgns |-> rgns]
       /\ loc' = evalBeckmannDistributionLocals(H, rgns)
       /\ ret' = evalBeckmannDistribution(H, rgns)
  /\ fn' = "evalBeckmannDistribution"
  /\ pc' = "done"

CallEvalGGXDistribution ==
  /\ Ready
  /\ \E H \in NdfHSet, rgns \in GGXRoughSet :
       /\ arg' = [H |-> H, rgns |-> rgns]
       /\ loc' = evalGGXDistributionLocals(H, rgns)
       /\ ret' = evalGGXDistribution(H, rgns)
  /\ fn' = "evalGGXDistribution"
  /\ pc' = "done"

\* A sampler is entered and samples phi and theta (lines 288-297, 344-353).
SampleBegin ==
  /\ Ready
  /\ \E f \in Samplers, wo \in WoSet, roughness \in SampleRoughSet,
        x \in RSampleX, y \in RSampleY :
       LET rSample == v2(x, y)
           alphaSqr == FMul(roughness.x, roughness.x)
           temp == SamplePhi(rSample)
           tanThetaMSqr == TanThetaMSqr(f, alphaSqr, rSample)
       IN /\ fn' = f
          /\ arg' = [wo |-> wo, roughness |-> roughness, rSample |-> rSample]
          /\ loc' = [alphaSqr |-> alphaSqr, sinPhiM |-> FSin(temp),
                     cosPhiM |-> FCos(temp), tanThetaMSqr |-> tanThetaMSqr,
                     cosThetaM |-> CosThetaM(tanThetaMSqr), pdf |-> Undef,
                     m |-> UndefVec, wi |-> UndefVec, weight |-> Undef]
  /\ pc' = "theta"
  /\ ret' = Undef

\* Lines 300 and 356-357.
SamplePdf ==
  /\ pc = "theta"
  /\ loc' = [loc EXCEPT !.pdf = HalfVectorPdf(fn, arg.roughness, arg.rSample,
                                               loc.alphaSqr, loc.tanThetaMSqr,
                                               loc.cosThetaM)]
  /\ pc' = "pdf"
  /\ UNCHANGED <<fn, arg, ret>>

\* Lines 303-304 and 360-361.
SampleSanity ==
  /\ pc = "pdf"
  /\ loc' = [loc EXCEPT !.pdf = SanityCheck(loc.pdf)]
  /\ pc' = "checked"
  /\ UNCHANGED <<fn, arg, ret>>

\* Lines 307-311 and 364-368.
SampleNormal ==
  /\ pc = "checked"
  /\ loc' = [loc EXCEPT !.m = MicrofacetNormal(loc.cosThetaM, loc.sinPhiM,
                                                loc.cosPhiM)]
  /\ pc' = "normal"
  /\ UNCHANGED <<fn, arg, ret>>

\* Lines 314 and 371.
SampleReflect ==
  /\ pc = "normal"
  /\ loc' = [loc EXCEPT !.wi = Reflect(arg.wo, loc.m)]
  /\ pc' = "reflected"
  /\ UNCHANGED <<fn, arg, ret>>

\* Lines 315-316 and 374-375: the zero-weight return.
SampleReject ==
  /\ pc = "reflected"
  /\ Rejected(loc.wi, loc.pdf)
  /\ ret' = FZero
  /\ pc' = "done"
  /\ UNCHANGED <<fn, arg, loc>>

\* Lines 318 and 377.
SampleWeight ==
  /\ pc = "reflected"
  /\ ~Rejected(loc.wi, loc.pdf)
  /\ loc' = [loc EXCEPT !.weight = Weight(fn, arg.wo, arg.roughness, loc.m,
                                           loc.pdf)]
  /\ pc' = "weight"
  /\ UNCHANGED <<fn, arg, ret>>

\* Lines 321-323 and 380-382: the Jacobian, and the return of the weight.
SampleReturn ==
  /\ pc = "weight"
  /\ loc' = [loc EXCEPT !.pdf = Jacobian(loc.pdf, loc.wi, loc.m)]
  /\ ret' = loc.weight
  /\ pc' = "done"
  /\ UNCHANGED <<fn, arg>>

FresnelNext ==
  \/ CallDielectricFresnelSchlick
  \/ CallDielectricFresnelFast
  \/ CallDielectricFresnel

SmithNext ==
  \/ CallEffectiveVisibleRoughness
  \/ CallGSmith
  \/ CallEvalMicrofacetTerms

NdfNext ==
  \/ CallEvalBeckmannDistributionIso
  \/ CallEvalBeckmannDistribution
  \/ CallEvalGGXDistribution

SampleNext ==
  \/ SampleBegin
  \/ SamplePdf
  \/ SampleSanity
  \/ SampleNormal
  \/ SampleReflect
  \/ SampleReject
  \/ SampleWeight
  \/ SampleReturn

Next == FresnelNext \/ NdfNext \/ SmithNext \/ SampleNext

Spec == Init /\ [][Next]_vars
\* The function groups on their own.
SpecFresnel == Init /\ [][FresnelNext]_vars
SpecNdf == Init /\ [][NdfNext]_vars
SpecSmith == Init /\ [][SmithNext]_vars
SpecSample == Init /\ [][SampleNext]_vars

(***************************************************************************)
(* Claims about the Fresnel terms, checked under SpecFresnel.              *)
(***************************************************************************)
Returned(f) == fn = f /\ pc = "done"
InUnit(x) == FLe(FZero, x) /\ FLe(x, FOne)

\* The refraction radicand 1 - r^2 (1 - NdE^2), with r = 1/IoR when
\* NdE >= 0 and r = IoR when NdE < 0.
Radicand(NdE, IoR) ==
  LET r == IF FGe(NdE, FZero) THEN FDiv(FOne, IoR) ELSE IoR
  IN FSub(FOne, FMul(FMul(r, r), FSub(FOne, FMul(NdE, NdE))))

\* C8: dielectricFresnel returns exactly 1.0 whenever the refraction
\* radicand is <= 0, and on that path neither the square root (NdL) nor
\* the two reflectance quotients (Rp, Rs) are evaluated.
C8_TotalInternalReflection ==
  Returned("dielectricFresnel") /\ FLe(Radicand(arg.NdE, arg.IoR), FZero)
    => /\ ret = FOne
       /\ loc.NdL = Undef
       /\ loc.Rp = Undef
       /\ loc.Rs = Undef

\* A call from inside the medium (NdE < 0) that is totally reflected.
C8_Witness ==
  /\ Returned("dielectricFresnel")
  /\ FLt(arg.NdE, FZero)
  /\ FLe(Radicand(arg.NdE, arg.IoR), FZero)
  /\ ret = FOne

\* C9 as stated: for every IoR > 0 and every cosine in [0, 1],
\* dielectricFresnelSchlick and dielectricFresnel each return a value in
\* [0, 1].
C9_Original ==
  /\ Returned("dielectricFresnelSchlick") /\ FGt(arg.IoR, FZero)
       /\ InUnit(arg.VdH) => InUnit(ret)
  /\ Returned("dielectricFresnel") /\ FGt(arg.IoR, FZero)
       /\ InUnit(arg.NdE) => InUnit(ret)

\* The reflectance at normal incidence, ((1 - IoR) / (1 + IoR))^2.
NormalReflectance(IoR) ==
  LET q == FDiv(FSub(FOne, IoR), FAdd(FOne, IoR))
  IN FMul(q, q)

\* C10 as stated: for every IoR > 0, at cosine = 1 dielectricFresnelSchlick
\* and dielectricFresnel both return ((1 - IoR) / (1 + IoR))^2, and at
\* cosine = 0 both return 1.
C10_Original ==
  /\ Returned("dielectricFresnelSchlick") /\ arg.VdH = FOne
       => ret = NormalReflectance(arg.IoR)
  /\ Returned("dielectricFresnelSchlick") /\ arg.VdH = FZero => ret = FOne
  /\ Returned("dielectricFresnel") /\ arg.NdE = FOne
       => ret = NormalReflectance(arg.IoR)
  /\ Returned("dielectricFresnel") /\ arg.NdE = FZero => ret = FOne

(***************************************************************************)
(* Claims about shadowing and masking, checked under SpecSmith.            *)
(***************************************************************************)
\* dot(dir, h) * dir.z and 1 - dir.z^2, the quantities GSmith tests.
Facing(dir, h) == FMul(dot(dir, h), dir.z)
SinThSq(dir) == FSub(FOne, FMul(dir.z, dir.z))

\* C5: GSmith returns exactly 0 whenever dot(dir, h) * dir.z <= 0, for
\* both NDF types and any roughness, also when 1 - dir.z^2 <= 0 holds as
\* well: the back-facing test is the first of the early returns.
C5_BackFacingFirst ==
  Returned("GSmith") /\ FLe(Facing(arg.dir, arg.h), FZero) => ret = FZero

\* A back-facing direction at the pole: both early-return tests hold.
C5_Witness ==
  /\ Returned("GSmith")
  /\ FLe(Facing(arg.dir, arg.h), FZero)
  /\ FLe(SinThSq(arg.dir), FZero)
  /\ ret = FZero

\* C6 as stated: GSmith returns exactly 1 whenever 1 - dir.z^2 <= 0, for
\* every half vector h.
C6_Original ==
  Returned("GSmith") /\ FLe(SinThSq(arg.dir), FZero) => ret = FOne

\* C6 as amended: GSmith returns exactly 1 whenever 1 - dir.z^2 <= 0 and
\* dot(dir, h) * dir.z > 0, for every roughness and both NDF types.
C6_NoMaskingWhenFacing ==
  Returned("GSmith") /\ FLe(SinThSq(arg.dir), FZero)
    /\ FGt(Facing(arg.dir, arg.h), FZero) => ret = FOne

\* A direction at the pole that faces the microfacet.
C6_Witness ==
  /\ Returned("GSmith")
  /\ SinThSq(arg.dir) = FZero
  /\ FGt(Facing(arg.dir, arg.h), FZero)
  /\ ret = FOne

\* C7: evalMicrofacetTerms returns exactly 0 when transmissive is false
\* and dot(N, L) * dot(N, V) <= 0; in every other case it returns the
\* product of GSmith for V and for L, each projected on (T, B, N), with h
\* passed through unprojected.
C7_MicrofacetTerms ==
  Returned("evalMicrofacetTerms") =>
    LET vTg == v3(dot(arg.T, arg.V), dot(arg.B, arg.V), dot(arg.N, arg.V))
        lTg == v3(dot(arg.T, arg.L), dot(arg.B, arg.L), dot(arg.N, arg.L))
    IN IF ~arg.transmissive
          /\ FLe(FMul(dot(arg.N, arg.L), dot(arg.N, arg.V)), FZero)
       THEN ret = FZero
       ELSE ret = FMul(GSmith(vTg, arg.h, arg.roughness, arg.ndfType),
                       GSmith(lTg, arg.h, arg.roughness, arg.ndfType))

\* A transmissive call with V and L in opposite hemispheres that is not
\* cut off: both Smith terms are non-zero.
C7_Witness ==
  /\ Returned("evalMicrofacetTerms")
  /\ arg.transmissive
  /\ FLt(FMul(dot(arg.N, arg.L), dot(arg.N, arg.V)), FZero)
  /\ FGt(ret, FZero)

(***************************************************************************)
(* Claims about the samplers, checked under SpecSample.                    *)
(***************************************************************************)
\* The position of a sampler in its body.
Rank(p) ==
  CASE p = "idle" -> 0
    [] p = "theta" -> 1
    [] p = "pdf" -> 2
    [] p = "checked" -> 3
    [] p = "normal" -> 4
    [] p = "reflected" -> 5
    [] p = "weight" -> 6
    [] OTHER -> 7

\* One step of a sampler, as C1 states it.
C1_Step ==
  fn' \in Samplers =>
    \* a density below 1e-20 is replaced by exactly 0
    /\ pc = "pdf" =>
         loc'.pdf = (IF FLt(loc.pdf, PdfThreshold) THEN FZero ELSE loc.pdf)
    \* wi.z <= 0 or pdf <= 0: the weight returned is exactly 0
    /\ pc = "reflected" /\ (FLe(loc.wi.z, FZero) \/ FLe(loc.pdf, FZero))
         => pc' = "done" /\ ret' = FZero
    \* one pass: no step goes back, the sample is the one of the entry,
    \* m is written by lines 309-311 only and wi by line 314 only
    /\ Rank(pc') > Rank(pc)
    /\ pc # "idle" =>
         /\ arg' = arg
         /\ loc'.m # loc.m => pc = "checked" /\ loc.m = UndefVec
         /\ loc'.wi # loc.wi => pc = "normal" /\ loc.wi = UndefVec

\* C1: in both samplers a half-vector pdf computed below 1e-20 is replaced
\* by exactly 0, the weight returned is exactly 0 whenever wi.z <= 0 or the
\* pdf is <= 0, and the function is a single pass over one random sample
\* (m and wi are written once, no step is repeated).
C1_SanityAndSinglePass == [][C1_Step]_vars

\* The density of the half vector, as line 300 (357) computed it.
ComputedPdf ==
  HalfVectorPdf(fn, arg.roughness, arg.rSample, loc.alphaSqr,
                loc.tanThetaMSqr, loc.cosThetaM)

\* A positive density below 1e-20 was replaced by 0 and, with wi above the
\* surface, the sampler returned the weight 0.
C1_Witness ==
  /\ fn \in Samplers
  /\ pc = "done"
  /\ FGt(ComputedPdf, FZero)
  /\ FLt(ComputedPdf, PdfThreshold)
  /\ loc.pdf = FZero
  /\ FGt(loc.wi.z, FZero)
  /\ ret = FZero

\* C2 as stated: on every return of a sampler, successful or zero-weight,
\* the out parameter pdf is either 0 or the half-vector pdf divided by
\* 4 * dot(wi, m).
C2_Original ==
  [][fn' \in Samplers /\ pc' = "done" =>
       \/ loc'.pdf = FZero
       \/ loc'.pdf = FDiv(loc.pdf, FMul(FInt(4), dot(loc.wi, loc.m)))]_vars

\* a and b agree to a relative error of 1/16.
Close(a, b) ==
  FLe(FAbs(FSub(a, b)), FMul(FRat(1, 16), FMax(FAbs(a), FAbs(b))))

\* C3 as stated: for every roughness vector, isotropic or not, the
\* half-vector pdf a sampler computes equals D(m) * m.z for the matching
\* anisotropic distribution D at the sampled m, and on the success path
\* the weight returned equals dot(wo, m) / (m.z * wo.z).
C3_Original ==
  fn \in Samplers =>
    /\ pc = "normal" /\ loc.pdf # FZero =>
         Close(loc.pdf,
               FMul(Distribution(fn, loc.m, arg.roughness), loc.m.z))
    /\ pc = "done" /\ loc.weight # Undef =>
         Close(ret, FDiv(dot(arg.wo, loc.m), FMul(loc.m.z, arg.wo.z)))

\* The scenario of the specification: wo = (0, 0, 1), roughness 0.5,
\* rSample = (0.5, 0.0).
Scenario ==
  [wo |-> v3(FZero, FZero, FOne), roughness |-> v2(FHalf, FHalf),
   rSample |-> v2(FHalf, FZero)]

\* a and b agree to an absolute error of 1/64.
Near(a, b) == FLe(FAbs(FSub(a, b)), FRat(1, 64))

\* C4 as stated: for a unit wo with wo.z > 0 and roughness components > 0,
\* both samplers return weight >= 0 and pdf >= 0; a non-zero weight comes
\* with wi.z > 0, dot(wi, m) = dot(wo, m) > 0 and pdf > 0; and in the
\* scenario both take the success path with wi.z > 0, pdf > 0 and a finite
\* weight >= 0.
C4_Original ==
  fn \in Samplers /\ pc = "done" /\ FGt(arg.wo.z, FZero) =>
    /\ FGe(ret, FZero)
    /\ FGe(loc.pdf, FZero)
    /\ ret # FZero =>
         /\ FGt(loc.wi.z, FZero)
         /\ FGt(dot(arg.wo, loc.m), FZero)
         /\ FGt(dot(loc.wi, loc.m), FZero)
         /\ Near(dot(loc.wi, loc.m), dot(arg.wo, loc.m))
         /\ FGt(loc.pdf, FZero)
    /\ arg = Scenario =>
         /\ loc.weight # Undef
         /\ FGt(loc.wi.z, FZero)
         /\ FGt(loc.pdf, FZero)
         /\ IsFinite(ret)
         /\ FGe(ret, FZero)

(***************************************************************************)
(* The exact Fresnel term against the two-cosine form, under SpecFresnel.  *)
(***************************************************************************)
\* The refracted cosine sqrt(1 - (1 - NdE^2) / IoR^2).
RefractedCosine(NdE, IoR) ==
  FSqrt(FSub(FOne, FDiv(FSub(FOne, FMul(NdE, NdE)), FMul(IoR, IoR))))

\* C11 as stated: for NdE in (0, 1] and IoR > 0 outside total internal
\* reflection, dielectricFresnel(NdE, IoR) equals the unpolarized
\* reflectance (Rs^2 + Rp^2) / 2 of the perpendicular and the parallel
\* ratio, that is dielectricFresnelFast(NdE, NdL, IoR) with NdL the
\* refracted cosine.
C11_Original ==
  /\ Returned("dielectricFresnel")
  /\ FGt(arg.NdE, FZero)
  /\ FLe(arg.NdE, FOne)
  /\ FGt(arg.IoR, FZero)
  /\ FGt(Radicand(arg.NdE, arg.IoR), FZero)
  => Close(ret, dielectricFresnelFast(arg.NdE,
                                      RefractedCosine(arg.NdE, arg.IoR),
                                      arg.IoR))

(***************************************************************************)
(* Claims about the distribution functions, checked under SpecNdf.         *)
(***************************************************************************)
\* C12 as stated: both forms of evalBeckmannDistribution clamp the exponent
\* at 0 from below before negating it, so that for every input exp is
\* called with an argument <= 0.
C12_Original ==
  Returned("evalBeckmannDistributionIso") \/ Returned("evalBeckmannDistribution")
    => FLe(loc.expArg, FZero)

\* C14 as stated: for every roughness vector with non-negative components,
\* zeros included, the anisotropic evalGGXDistribution computes its
\* anisotropy ratios in [0, 1] and completes without a division by zero
\* (0/0 included).
C14_Original ==
  /\ Returned("evalGGXDistribution")
  /\ FGe(arg.rgns.x, FZero)
  /\ FGe(arg.rgns.y, FZero)
  => /\ InUnit(loc.anisoU)
     /\ InUnit(loc.anisoV)
     /\ \A d \in loc.divisors : ~IsZero(d)

(***************************************************************************)
(* Claims about the divisions of shadowing and masking, under SpecSmith.   *)
(***************************************************************************)
\* C13 as stated: effectiveVisibleRoughness divides by zero at dir.z = 0
\* and nowhere else, not at dir.z = +1 and not at dir.z = -1.
C13_Original ==
  Returned("effectiveVisibleRoughness")
    => (IsZero(loc.divisor) <=> arg.dir.z = FZero)

\* C13 as amended: effectiveVisibleRoughness divides by 1 - dir.z^2, which
\* is zero exactly at dir.z = +1 and dir.z = -1; at dir.z = 0 the divisor
\* is 1 and the result is finite.
C13_SingularAtPoles ==
  Returned("effectiveVisibleRoughness") =>
    /\ IsZero(loc.divisor) <=> FAbs(arg.dir.z) = FOne
    /\ arg.dir.z = FZero =>
         /\ loc.divisor = FOne
         /\ loc.recipSinThSq = FOne
         /\ IsFinite(ret)

\* A call at the pole: the divisor is 0 and its reciprocal infinite.
C13_Witness ==
  /\ Returned("effectiveVisibleRoughness")
  /\ arg.dir.z = FOne
  /\ IsZero(loc.divisor)
  /\ IsInf(loc.recipSinThSq)

\* C15 as stated: for any dir, with dir.z of either sign, any h, positive
\* roughness and both NDF types GSmith returns a value in [0, 1]; the
\* Beckmann fit never yields a value above 1 or below 0.
C15_Original ==
  /\ Returned("GSmith")
  /\ FGt(arg.rghns.x, FZero)
  /\ FGt(arg.rghns.y, FZero)
  => InUnit(ret)


\* A direction of unit length, up to the rounding of its components.
IsUnit(dir) == Near(dot(dir, dir), FOne)

\* C16 as stated: for every unit dir, every h and roughness components
\* > 0, no division inside GSmith has a zero divisor: the slope is
\* computed only when dir.z # 0, effectiveVisibleRoughness is called only
\* when 1 - dir.z^2 > 0, and the Beckmann divisor alpha * recipSlope is
\* non-zero.
C16_Original ==
  Returned("GSmith") /\ IsUnit(arg.dir)
    /\ FGt(arg.rghns.x, FZero) /\ FGt(arg.rghns.y, FZero) =>
      /\ loc.slopeDivisor # Undef => ~IsZero(loc.slopeDivisor)
      /\ loc.alphaDivisor # Undef => FGt(loc.alphaDivisor, FZero)
      /\ loc.aDivisor # Undef => ~IsZero(loc.aDivisor)
      /\ \A d \in loc.divisors : ~IsZero(d)

=============================================================================
